---- MODULE Spec2Model ----
(***************************************************************************)
(* ariadne-codegen: the runtime BaseClient (dependencies/base_client.py)   *)
(* and the ClientGenerator (client_generators/client.py).                  *)
(*                                                                         *)
(* Python values are modelled as tagged records of one shape:              *)
(*   k      the Python type: "none", "int", "str", "unset", "file",        *)
(*          "list", "dict", "model" (a pydantic BaseModel)                 *)
(*   n      the int value, or the identity of a file handle                *)
(*   s      the str value                                                  *)
(*   mode   a file handle's mode attribute, as its sequence of characters  *)
(*   keys   a dict's keys in insertion order                               *)
(*   items  a list's elements, a dict's values (parallel to keys), or the  *)
(*          one-element sequence holding what BaseModel.dict() returns     *)
(***************************************************************************)
EXTENDS Integers, Sequences, FiniteSets, TLC

VARIABLES
    injected,            \* __init__ was given an http_client argument
    handle,              \* self.http_client: "open" or "closed"
    scope,               \* the with-block: "none", "entered", "raising", "exited"
    entered,             \* what __enter__ returned: "self" once entered
    exc,                 \* the exception leaving the with-body, handed to __exit__
    op,                  \* the most recent call on the client
    variables,           \* the caller's variables object
    arg,                 \* the variables argument as it was when the call was made
    processed_variables, \* execute: the variables entry of the payload
    files_to_paths_map,  \* execute: the File Reference Map
    request,             \* execute: what was handed to http_client.post
    posts,               \* execute: calls of http_client.post made by the call
    response,            \* the transport's response: execute returns it, get_data reads it
    json_calls,          \* get_data: calls of response.json() made by the call
    outcome,             \* get_data: the value returned or the exception raised
    plugin,              \* ClientGenerator: the hooks of self.plugin_manager
    imports,             \* ClientGenerator: self._imports
    class_def,           \* ClientGenerator: self._class_def
    used,                \* ClientGenerator: what self.arguments_generator recorded
    calls,               \* ClientGenerator: what each add_method call appended
    module               \* ClientGenerator: what the last generate() returned

clientVars == <<injected, handle, scope, entered, exc, op, variables, arg,
                processed_variables, files_to_paths_map, request, posts,
                response, json_calls, outcome>>
genVars == <<plugin, imports, class_def, used, calls, module>>
vars == <<clientVars, genVars>>

----------------------------------------------------------------------------
(* Bounds of the model *)

MaxFiles == 2
MaxLen == 2
MaxMethods == 3

----------------------------------------------------------------------------
(* Python values *)

NoMode == <<"<no mode attribute>">>

Val(k, n, s, mode, keys, items) ==
    [k |-> k, n |-> n, s |-> s, mode |-> mode, keys |-> keys, items |-> items]

PyNone == Val("none", 0, "", <<>>, <<>>, <<>>)
UNSET == Val("unset", 0, "", <<>>, <<>>, <<>>)
PyInt(n) == Val("int", n, "", <<>>, <<>>, <<>>)
PyStr(s) == Val("str", 0, s, <<>>, <<>>, <<>>)
PyFile(id, mode) == Val("file", id, "", mode, <<>>, <<>>)
PyList(items) == Val("list", 0, "", <<>>, <<>>, items)
PyDict(keys, items) == Val("dict", 0, "", <<>>, keys, items)
PyModel(dump) == Val("model", 0, "", <<>>, <<>>, <<dump>>)

Range(f) == {f[i] : i \in DOMAIN f}

\* bool(value), as `if errors:` and `if not variables:` evaluate it
Truthy(v) ==
    CASE v.k = "none" -> FALSE
      [] v.k = "int" -> v.n # 0
      [] v.k = "str" -> v.s # ""
      [] v.k \in {"list", "dict"} -> Len(v.items) > 0
      [] OTHER -> TRUE

\* dict_[key]
DictGet(d, key) ==
    d.items[CHOOSE i \in DOMAIN d.keys : d.keys[i] = key]

\* dict_.get(key)
DictGetOrNone(d, key) ==
    IF key \in Range(d.keys) THEN DictGet(d, key) ELSE PyNone

----------------------------------------------------------------------------
(* BaseClient: variable normalization *)

RECURSIVE _convert_value(_)
_convert_value(value) ==
    IF value.k = "model" THEN value.items[1]
    ELSE IF value.k = "list"
         THEN PyList([i \in DOMAIN value.items |-> _convert_value(value.items[i])])
    ELSE value

\* the dict comprehension: entries in insertion order, from position i on
RECURSIVE ConvertEntries(_, _)
ConvertEntries(dict_, i) ==
    IF i > Len(dict_.keys) THEN PyDict(<<>>, <<>>)
    ELSE LET rest == ConvertEntries(dict_, i + 1)
         IN  IF dict_.items[i] # UNSET
             THEN PyDict(<<dict_.keys[i]>> \o rest.keys,
                         <<_convert_value(dict_.items[i])>> \o rest.items)
             ELSE rest

\* the comprehension filtering `if value`, which drops None with UNSET
RECURSIVE ConvertTruthyEntries(_, _)
ConvertTruthyEntries(dict_, i) ==
    IF i > Len(dict_.keys) THEN PyDict(<<>>, <<>>)
    ELSE LET rest == ConvertTruthyEntries(dict_, i + 1)
         IN  IF dict_.items[i] # UNSET /\ dict_.items[i] # PyNone
             THEN PyDict(<<dict_.keys[i]>> \o rest.keys,
                         <<_convert_value(dict_.items[i])>> \o rest.items)
             ELSE rest

ConvertDroppingNone(dict_) == ConvertTruthyEntries(dict_, 1)

_convert_dict_to_json_serializable(dict_) == ConvertEntries(dict_, 1)

----------------------------------------------------------------------------
(* BaseClient: file extraction *)

\* the File Reference Map: a dict from file handle to its list of paths, kept
\* as the handles in insertion order and the parallel sequence of path lists
EmptyMap == [files |-> <<>>, paths |-> <<>>]

\* the test without the mode check: isinstance(obj, io.IOBase)
IsAnyFile(obj) == obj.k = "file"

\* isinstance(obj, io.IOBase) and "b" in getattr(obj, "mode", "b")
IsBinaryFile(obj) ==
    /\ obj.k = "file"
    /\ LET mode == IF obj.mode = NoMode THEN <<"b">> ELSE obj.mode
       IN  \E i \in DOMAIN mode : mode[i] = "b"

\* files_to_paths_map[checked_obj] = [path], whether or not the handle is known
RecordFileOverwriting(fmap, file_, path) ==
    IF \E i \in DOMAIN fmap.files : fmap.files[i] = file_
    THEN LET i == CHOOSE j \in DOMAIN fmap.files : fmap.files[j] = file_
         IN  [fmap EXCEPT !.paths[i] = <<path>>]
    ELSE [files |-> Append(fmap.files, file_), paths |-> Append(fmap.paths, <<path>>)]

\* files_to_paths_map[checked_obj].append(path), or a new entry [path]
RecordFile(fmap, file_, path) ==
    IF \E i \in DOMAIN fmap.files : fmap.files[i] = file_
    THEN LET i == CHOOSE j \in DOMAIN fmap.files : fmap.files[j] = file_
         IN  [fmap EXCEPT !.paths[i] = Append(@, path)]
    ELSE [files |-> Append(fmap.files, file_), paths |-> Append(fmap.paths, <<path>>)]

RECURSIVE separate_files(_, _, _)
RECURSIVE SeparateItems(_, _, _, _, _)

\* the two for loops: the items from position i on, done holding the values
\* already appended to nulled_list / nulled_dict
SeparateItems(path, obj, i, done, fmap) ==
    IF i > Len(obj.items) THEN [val |-> done, fmap |-> fmap]
    ELSE LET seg == IF obj.k = "list" THEN ToString(i - 1) ELSE obj.keys[i]
             r == separate_files(path \o "." \o seg, obj.items[i], fmap)
         IN  SeparateItems(path, obj, i + 1, Append(done, r.val), r.fmap)

separate_files(path, obj, fmap) ==
    IF obj.k = "list"
    THEN LET r == SeparateItems(path, obj, 1, <<>>, fmap)
         IN  [val |-> PyList(r.val), fmap |-> r.fmap]
    ELSE IF obj.k = "dict"
    THEN LET r == SeparateItems(path, obj, 1, <<>>, fmap)
         IN  [val |-> PyDict(obj.keys, r.val), fmap |-> r.fmap]
    ELSE IF IsBinaryFile(obj)
    THEN [val |-> PyNone, fmap |-> RecordFile(fmap, obj, path)]
    ELSE [val |-> obj, fmap |-> fmap]

\* returns (nulled_variables, files_to_paths_map); arg is the argument object
\* as the call leaves it: the walk appends to fresh nulled_list / nulled_dict
\* containers and never assigns into obj
_get_files_from_variables(vars_) ==
    LET r == separate_files("variables", vars_, EmptyMap)
    IN  [nulled |-> r.val, fmap |-> r.fmap, arg |-> vars_]

_process_variables(vars_) ==
    IF ~Truthy(vars_)
    THEN [nulled |-> PyDict(<<>>, <<>>), fmap |-> EmptyMap, arg |-> vars_]
    ELSE LET r == _get_files_from_variables(_convert_dict_to_json_serializable(vars_))
         IN  [nulled |-> r.nulled, fmap |-> r.fmap, arg |-> vars_]

----------------------------------------------------------------------------
(* BaseClient: the request *)

\* json.dumps encodes None, int, str (no character of the modelled strings
\* needs escaping), list and dict itself and hands any other value to
\* default=pydantic_encoder, which returns obj.dict() for a BaseModel (encoded
\* in its turn) and raises TypeError for a file handle or the UNSET sentinel.
\* The modelled models have no aliased and no unset field, so obj.dict() is
\* the dict that dict(by_alias=True, exclude_unset=True) gives.
RECURSIVE CanEncode(_)
CanEncode(v) ==
    CASE v.k \in {"none", "int", "str"} -> TRUE
      [] v.k \in {"list", "dict", "model"} ->
            \A i \in DOMAIN v.items : CanEncode(v.items[i])
      [] OTHER -> FALSE

RECURSIVE JsonDumps(_)
RECURSIVE JsonJoin(_, _)

\* the encoded items of a list or dict from position i on, joined by ", "
JsonJoin(v, i) ==
    IF i > Len(v.items) THEN ""
    ELSE (IF i > 1 THEN ", " ELSE "")
         \o (IF v.k = "dict" THEN "\"" \o v.keys[i] \o "\": " ELSE "")
         \o JsonDumps(v.items[i])
         \o JsonJoin(v, i + 1)

JsonDumps(v) ==
    CASE v.k = "none" -> "null"
      [] v.k = "int" -> ToString(v.n)
      [] v.k = "str" -> "\"" \o v.s \o "\""
      [] v.k = "list" -> "[" \o JsonJoin(v, 1) \o "]"
      [] v.k = "dict" -> "{" \o JsonJoin(v, 1) \o "}"
      [] v.k = "model" -> JsonDumps(v.items[1])

NoRequest ==
    [kind |-> "none", content |-> "", content_type |-> "", operations |-> "",
     map |-> "", files_map |-> PyDict(<<>>, <<>>), files |-> PyDict(<<>>, <<>>)]

\* what one call of self.http_client.post received
Sent(request_) == [posts |-> 1, request |-> request_, raised |-> "none"]
\* json.dumps raised before http_client.post was reached
NotSent == [posts |-> 0, request |-> NoRequest, raised |-> "TypeError"]

\* str(i) for i, file_ in enumerate(files_to_paths_map.keys())
Indices(fmap) == [i \in DOMAIN fmap.files |-> ToString(i - 1)]

_execute_multipart(payload, fmap) ==
    LET files_map == PyDict(Indices(fmap),
                            [i \in DOMAIN fmap.files |->
                                PyList([j \in DOMAIN fmap.paths[i] |->
                                           PyStr(fmap.paths[i][j])])])
        files == PyDict(Indices(fmap), fmap.files)
    IN  IF ~CanEncode(payload) THEN NotSent
        ELSE Sent([kind |-> "multipart", content |-> "", content_type |-> "",
                   operations |-> JsonDumps(payload), map |-> JsonDumps(files_map),
                   files_map |-> files_map, files |-> files])

_execute_json(payload) ==
    IF ~CanEncode(payload) THEN NotSent
    ELSE Sent([NoRequest EXCEPT !.kind = "json", !.content = JsonDumps(payload),
                               !.content_type = "application/json"])

\* execute testing `if processed_variables:` in place of `if files_to_paths_map:`
ExecuteMultipartForAnyVariables(query, vars_) ==
    LET p == _process_variables(vars_)
        payload == PyDict(<<"query", "variables">>, <<PyStr(query), p.nulled>>)
        sent == IF Truthy(p.nulled)
                THEN _execute_multipart(payload, p.fmap)
                ELSE _execute_json(payload)
    IN  [processed |-> p.nulled, fmap |-> p.fmap, arg |-> p.arg,
         posts |-> sent.posts, request |-> sent.request, raised |-> sent.raised]

\* execute, up to the response: the processed variables, the File Reference
\* Map and the post
execute(query, vars_) ==
    LET p == _process_variables(vars_)
        payload == PyDict(<<"query", "variables">>, <<PyStr(query), p.nulled>>)
        sent == IF Len(p.fmap.files) > 0
                THEN _execute_multipart(payload, p.fmap)
                ELSE _execute_json(payload)
    IN  [processed |-> p.nulled, fmap |-> p.fmap, arg |-> p.arg,
         posts |-> sent.posts, request |-> sent.request, raised |-> sent.raised]

----------------------------------------------------------------------------
(* BaseClient: get_data *)

\* a response: its status code, whether response.json() can parse the body,
\* and the parsed body
Response(status_code, parses, json) ==
    [status_code |-> status_code, parses |-> parses, json |-> json]

NoResponse == Response(0, FALSE, PyNone)

\* httpx.Response.is_success: a 2xx status
is_success(response_) ==
    response_.status_code >= 200 /\ response_.status_code <= 299

Outcome(kind, status_code, response_, data, errors) ==
    [kind |-> kind, status_code |-> status_code, response |-> response_,
     data |-> data, errors |-> errors]

NoOutcome == Outcome("none", 0, NoResponse, PyNone, <<>>)

\* GraphQLClientGraphQLError.from_dict
GraphQLError(error_dict) ==
    [message |-> DictGet(error_dict, "message").s]

\* GraphQLClientGraphQLMultiError.from_errors_dicts
from_errors_dicts(errors_dicts, data) ==
    Outcome("GraphQLMultiError", 0, NoResponse, data,
            [i \in DOMAIN errors_dicts.items |-> GraphQLError(errors_dicts.items[i])])

\* get_data parsing the body before it looks at the status
GetDataParsingFirst(response_) ==
    IF ~response_.parses
    THEN [json_calls |-> 1,
          outcome |-> Outcome("InvalidResponseError", 0, response_, PyNone, <<>>)]
    ELSE IF ~is_success(response_)
    THEN [json_calls |-> 1,
          outcome |-> Outcome("HttpError", response_.status_code, response_, PyNone, <<>>)]
    ELSE LET response_json == response_.json
         IN  IF response_json.k # "dict" \/ "data" \notin Range(response_json.keys)
             THEN [json_calls |-> 1,
                   outcome |-> Outcome("InvalidResponseError", 0, response_, PyNone, <<>>)]
             ELSE LET data == DictGet(response_json, "data")
                      errors == DictGetOrNone(response_json, "errors")
                  IN  IF Truthy(errors)
                      THEN [json_calls |-> 1, outcome |-> from_errors_dicts(errors, data)]
                      ELSE [json_calls |-> 1,
                            outcome |-> Outcome("return", 0, response_, data, <<>>)]

\* get_data without the `if errors:` branch
GetDataIgnoringErrors(response_) ==
    IF ~is_success(response_)
    THEN [json_calls |-> 0,
          outcome |-> Outcome("HttpError", response_.status_code, response_, PyNone, <<>>)]
    ELSE IF ~response_.parses
    THEN [json_calls |-> 1,
          outcome |-> Outcome("InvalidResponseError", 0, response_, PyNone, <<>>)]
    ELSE LET response_json == response_.json
         IN  IF response_json.k # "dict" \/ "data" \notin Range(response_json.keys)
             THEN [json_calls |-> 1,
                   outcome |-> Outcome("InvalidResponseError", 0, response_, PyNone, <<>>)]
             ELSE [json_calls |-> 1,
                   outcome |-> Outcome("return", 0, response_,
                                       DictGet(response_json, "data"), <<>>)]

\* get_data reading response_json.get("data") with no check for the data key
GetDataWithoutDataCheck(response_) ==
    IF ~is_success(response_)
    THEN [json_calls |-> 0,
          outcome |-> Outcome("HttpError", response_.status_code, response_, PyNone, <<>>)]
    ELSE IF ~response_.parses
    THEN [json_calls |-> 1,
          outcome |-> Outcome("InvalidResponseError", 0, response_, PyNone, <<>>)]
    ELSE LET response_json == response_.json
         IN  IF response_json.k # "dict"
             THEN [json_calls |-> 1,
                   outcome |-> Outcome("InvalidResponseError", 0, response_, PyNone, <<>>)]
             ELSE LET data == DictGetOrNone(response_json, "data")
                      errors == DictGetOrNone(response_json, "errors")
                  IN  IF Truthy(errors)
                      THEN [json_calls |-> 1, outcome |-> from_errors_dicts(errors, data)]
                      ELSE [json_calls |-> 1,
                            outcome |-> Outcome("return", 0, response_, data, <<>>)]

\* the result, and how often response.json() was called
get_data(response_) ==
    IF ~is_success(response_)
    THEN [json_calls |-> 0,
          outcome |-> Outcome("HttpError", response_.status_code, response_, PyNone, <<>>)]
    ELSE IF ~response_.parses
    THEN [json_calls |-> 1,
          outcome |-> Outcome("InvalidResponseError", 0, response_, PyNone, <<>>)]
    ELSE LET response_json == response_.json
         IN  IF response_json.k # "dict" \/ "data" \notin Range(response_json.keys)
             THEN [json_calls |-> 1,
                   outcome |-> Outcome("InvalidResponseError", 0, response_, PyNone, <<>>)]
             ELSE LET data == DictGet(response_json, "data")
                      errors == DictGetOrNone(response_json, "errors")
                  IN  IF Truthy(errors)
                      THEN [json_calls |-> 1,
                            outcome |-> from_errors_dicts(errors, data)]
                      ELSE [json_calls |-> 1,
                            outcome |-> Outcome("return", 0, response_, data, <<>>)]

----------------------------------------------------------------------------
(* ClientGenerator: tree nodes *)

\* a statement of the class body: a method definition or ast.Pass
Stmt(node, name, lineno, returns, awaited) ==
    [node |-> node, name |-> name, lineno |-> lineno, returns |-> returns,
     awaited |-> awaited]

Pass == Stmt("Pass", "", 0, "", FALSE)

IsMethod(stmt) == stmt.node \in {"FunctionDef", "AsyncFunctionDef"}

\* ast.ImportFrom; NoImport is the None of an Optional[ast.ImportFrom]
ImportFrom(names, from_, level) == [names |-> names, module |-> from_, level |-> level]
NoImport == ImportFrom(<<>>, "<None>", 0)

ClassDef(name, base, lineno, body) ==
    [name |-> name, base |-> base, lineno |-> lineno, body |-> body]

NoModule == [generated |-> FALSE, imports |-> <<>>,
             gql_func |-> Stmt("FunctionDef", "", 0, "", FALSE),
             class_def |-> ClassDef("", "", 0, <<>>)]

Reverse(seq) == [i \in DOMAIN seq |-> seq[Len(seq) + 1 - i]]

\* the elements of seq in order, without repeats
RECURSIVE Unique(_)
Unique(seq) ==
    IF seq = <<>> THEN <<>>
    ELSE LET front == Unique(SubSeq(seq, 1, Len(seq) - 1))
             last == seq[Len(seq)]
         IN  IF last \in Range(front) THEN front ELSE Append(front, last)

----------------------------------------------------------------------------
(* ClientGenerator: the plugin hooks.  A hook is a caller-supplied function   *)
(* from a node to a node of the same kind; it may add, remove or rewrite.  *)
(* The plugin manager is one of these collections of five hooks.           *)

Hooks(method, class, module_, import_, gql) ==
    [present |-> TRUE, method |-> method, class |-> class, module |-> module_,
     import |-> import_, gql |-> gql]

NoPlugin ==
    [present |-> FALSE, method |-> "identity", class |-> "identity",
     module |-> "identity", import |-> "identity", gql |-> "identity"]
IdentityPlugin == Hooks("identity", "identity", "identity", "identity", "identity")
RenamingPlugin == Hooks("rename", "identity", "identity", "identity", "rename")
ReorderingPlugin == Hooks("identity", "reverse", "identity", "identity", "identity")
PruningPlugin == Hooks("identity", "identity", "drop_methods", "clear", "identity")

Plugins == {NoPlugin, IdentityPlugin, RenamingPlugin, ReorderingPlugin, PruningPlugin}

generate_client_method(p, method_def) ==
    IF p.method = "rename" THEN [method_def EXCEPT !.name = "traced_" \o @]
    ELSE method_def

generate_client_class(p, class_def_) ==
    IF p.class = "reverse" THEN [class_def_ EXCEPT !.body = Reverse(@)]
    ELSE class_def_

generate_client_module(p, module_) ==
    IF p.module = "drop_methods"
    THEN [module_ EXCEPT !.class_def.body = SelectSeq(@, LAMBDA s : ~IsMethod(s))]
    ELSE module_

generate_client_import(p, import_) ==
    IF p.import = "clear" THEN [import_ EXCEPT !.names = <<>>]
    ELSE import_

generate_gql_function(p, gql_func) ==
    IF p.gql = "rename" THEN [gql_func EXCEPT !.name = "traced_" \o @]
    ELSE gql_func

----------------------------------------------------------------------------
(* ClientGenerator *)

\* an operation handed to add_method: its name, return type and the module of
\* the return type, and what its variable definitions refer to
Operation(name, return_type, return_type_module, input, enum, scalar) ==
    [name |-> name, return_type |-> return_type,
     return_type_module |-> return_type_module,
     input |-> input, enum |-> enum, scalar |-> scalar]

Operations ==
    {Operation("get_a", "GetA", "get_a", <<>>, <<>>, <<"DateTime">>),
     Operation("get_b", "GetB", "get_b", <<"InputB">>, <<>>, <<>>),
     Operation("set_c", "SetC", "", <<>>, <<"EnumC">>, <<>>)}

\* self.arguments_generator.generate(definition.variable_definitions) records
\* the input types, enums and custom scalars the variables refer to
RecordUsed(used_, definition) ==
    [inputs |-> Unique(used_.inputs \o definition.input),
     enums |-> Unique(used_.enums \o definition.enum),
     scalars |-> Unique(used_.scalars \o definition.scalar)]

\* generate_scalar_imports(self.custom_scalars[name])
generate_scalar_imports(custom_scalar_name) ==
    <<ImportFrom(<<custom_scalar_name>>, "scalars", 0)>>

\* self._imports after self._add_import(import_)
_add_import(p, imports_, import_) ==
    IF import_ = NoImport THEN imports_
    ELSE LET hooked == IF p.present THEN generate_client_import(p, import_)
                       ELSE import_
         IN  IF hooked.names # <<>> /\ hooked.module # ""
             THEN Append(imports_, hooked)
             ELSE imports_

RECURSIVE AddImports(_, _, _)
AddImports(p, imports_, new) ==
    IF new = <<>> THEN imports_
    ELSE AddImports(p, _add_import(p, imports_, new[1]), Tail(new))

\* the loop over get_used_custom_scalars(), adding each scalar's imports
RECURSIVE AddScalarImports(_, _, _)
AddScalarImports(p, imports_, scalars) ==
    IF scalars = <<>> THEN imports_
    ELSE AddScalarImports(p, AddImports(p, imports_, generate_scalar_imports(scalars[1])),
                          Tail(scalars))

_generate_async_method(name, return_type) ==
    Stmt("AsyncFunctionDef", name, 0, return_type, TRUE)

_generate_method(name, return_type) ==
    Stmt("FunctionDef", name, 0, return_type, FALSE)

_generate_gql_func == Stmt("FunctionDef", "gql", 0, "str", FALSE)

\* self._class_def.body.insert(0, method_def)
PrependMethod(body, method_def) == <<method_def>> \o body

\* self._class_def.body.append(method_def)
AppendMethod(body, method_def) == Append(body, method_def)

\* the generator after add_method(definition, ..., async_)
add_method(p, imports_, class_def_, definition, async_) ==
    LET method_def == IF async_
                      THEN _generate_async_method(definition.name, definition.return_type)
                      ELSE _generate_method(definition.name, definition.return_type)
        numbered == [method_def EXCEPT !.lineno = Len(class_def_.body) + 1]
        hooked == IF p.present THEN generate_client_method(p, numbered) ELSE numbered
    IN  [class_def |-> [class_def_ EXCEPT !.body = AppendMethod(@, hooked)],
         imports |-> _add_import(p, imports_,
                        ImportFrom(<<definition.return_type>>,
                                   definition.return_type_module, 1)),
         appended |-> hooked]

\* the generator after generate(), and the module it returns
generate(p, imports_, class_def_, used_) ==
    LET imports1 == _add_import(p, imports_, ImportFrom(used_.inputs, "input_types", 1))
        imports2 == _add_import(p, imports1, ImportFrom(used_.enums, "enums", 1))
        imports3 == AddScalarImports(p, imports2, used_.scalars)
        gql0 == [_generate_gql_func EXCEPT !.lineno = Len(imports3) + 1]
        gql_func == IF p.present THEN generate_gql_function(p, gql0) ELSE gql0
        class0 == [class_def_ EXCEPT !.lineno = Len(imports3) + 3]
        class1 == IF class0.body = <<>> THEN [class0 EXCEPT !.body = <<Pass>>]
                  ELSE class0
        class2 == IF p.present THEN generate_client_class(p, class1) ELSE class1
        module0 == [generated |-> TRUE, imports |-> imports3, gql_func |-> gql_func,
                    class_def |-> class2]
    IN  [imports |-> imports3, class_def |-> class2,
         module |-> IF p.present THEN generate_client_module(p, module0) ELSE module0]

----------------------------------------------------------------------------
(* The inputs of the runtime client *)

\* an open binary file: opened with mode "rb", or an io.BytesIO, which has no
\* mode attribute
BinaryHandle(id) == PyFile(id, IF id % 2 = 1 THEN <<"r", "b">> ELSE NoMode)
BinaryHandles == {BinaryHandle(id) : id \in 1..MaxFiles}
\* a file opened in text mode
TextHandle == PyFile(0, <<"r">>)

Plain == {PyNone, PyInt(1)}

Lists(S, n) == {PyList(items) : items \in UNION {[1..m -> S] : m \in 0..n}}
Dicts(key, S) == {PyDict(<<>>, <<>>)} \cup {PyDict(<<key>>, <<v>>) : v \in S}

\* values nested one level and two levels deep over the leaves L
Nested1(L) == L \cup Lists(L, MaxLen) \cup Dicts("x", L)
Nested2(L) == Nested1(L) \cup Lists(Nested1(L), 1) \cup Dicts("y", Nested1(L))

\* a variables mapping: key "a" bound to a nested value, the UNSET sentinel, a
\* model, a list of a model or a dict holding a model of plain values (which
\* normalization leaves as it is), and optionally key "b", before or after
\* it, bound to a leaf or UNSET
Mappings(L) ==
    LET Models == {PyModel(d) : d \in Dicts("x", L)}
        InDict == {PyDict(<<"y">>, <<PyModel(d)>>) : d \in Dicts("x", Plain)}
        As == Nested2(L) \cup {UNSET} \cup Models \cup Lists(Models, 1) \cup InDict
        Bs == L \cup {UNSET}
    IN  {PyDict(<<>>, <<>>)}
        \cup {PyDict(<<"a">>, <<a>>) : a \in As}
        \cup {PyDict(<<"a", "b">>, <<a, b>>) : a \in As, b \in Bs}
        \cup {PyDict(<<"b", "a">>, <<b, a>>) : a \in As, b \in Bs}

\* variables as generated methods pass them to execute: None or a mapping of
\* JSON values and binary file handles
ExecuteInputs == {PyNone} \cup Mappings(Plain \cup BinaryHandles)

\* variables as _process_variables hands them to _get_files_from_variables:
\* what normalization returns, a model inside a dict left in place; a text-mode
\* file handle is one of the values that are not binary file handles
FilesInputs ==
    {_convert_dict_to_json_serializable(m) :
        m \in Mappings(Plain \cup BinaryHandles \cup {TextHandle})}

Boom == PyDict(<<"message">>, <<PyStr("boom")>>)
Bang == PyDict(<<"message">>, <<PyStr("bang")>>)

\* parsed bodies: objects with and without data and errors, and non-objects
Bodies ==
    LET Datas == {<<>>, <<PyNone>>, <<PyDict(<<"x">>, <<PyInt(1)>>)>>}
        Errors == {<<>>, <<PyNone>>, <<PyList(<<>>)>>, <<PyList(<<Boom>>)>>,
                   <<PyList(<<Boom, Bang>>)>>}
        Key(name, v) == IF v = <<>> THEN <<>> ELSE <<name>>
    IN  {PyDict(Key("data", d) \o Key("errors", e), d \o e) : d \in Datas, e \in Errors}
        \cup {PyList(<<>>), PyList(<<PyDict(<<"data">>, <<PyInt(1)>>)>>), PyInt(1), PyNone}

StatusCodes == {200, 204, 302, 404, 500}

Responses ==
    {Response(status, TRUE, body) : status \in StatusCodes, body \in Bodies}
    \cup {Response(status, FALSE, PyNone) : status \in StatusCodes}

----------------------------------------------------------------------------
(* The runtime client: a client, optionally used as a context manager, on   *)
(* which execute and get_data are called.  The caller's variables object   *)
(* and the transport's response are fixed when a behaviour starts.         *)

ClientInit(Injected, Variables, Resps) ==
    /\ injected \in Injected
    /\ handle = "open"
    /\ scope = "none"
    /\ entered = "none"
    /\ exc = "none"
    /\ op = "__init__"
    /\ variables \in Variables
    /\ response \in Resps
    /\ arg = PyNone
    /\ processed_variables = PyNone
    /\ files_to_paths_map = EmptyMap
    /\ request = NoRequest
    /\ posts = 0
    /\ json_calls = 0
    /\ outcome = NoOutcome

callVars == <<arg, processed_variables, files_to_paths_map, request, posts,
              json_calls, outcome>>

\* __enter__: return self
Enter ==
    /\ scope = "none"
    /\ scope' = "entered"
    /\ entered' = "self"
    /\ op' = "__enter__"
    /\ UNCHANGED <<injected, handle, exc, variables, response, callVars>>

\* __exit__ closing only a handle the client created itself
ExitClosingOwnedOnly(http_client, owned, exc_type) ==
    IF owned THEN "closed" ELSE http_client

\* __exit__ closing the handle only when the body raised nothing
ExitClosingOnSuccessOnly(http_client, owned, exc_type) ==
    IF exc_type = "none" THEN "closed" ELSE http_client

\* self.http_client after __exit__(exc_type, exc_val, exc_tb)
__exit__(http_client, owned, exc_type) == "closed"

\* leaving the with-block, normally or with the exception the body raised;
\* __exit__ returns None, so the exception propagates
Exit ==
    /\ scope \in {"entered", "raising"}
    /\ handle' = __exit__(handle, ~injected, exc)
    /\ scope' = "exited"
    /\ op' = "__exit__"
    /\ UNCHANGED <<injected, entered, exc, variables, response, callVars>>

\* an exception of the with-body that is none of the client's three
BodyRaises ==
    /\ scope = "entered"
    /\ scope' = "raising"
    /\ exc' = "Other"
    /\ UNCHANGED <<injected, handle, entered, op, variables, response, callVars>>

\* self.execute(query, variables); a TypeError of json.dumps leaves the call
\* before any post is made and, inside the with-block, leaves the body
Execute ==
    /\ scope \in {"none", "entered"}
    /\ LET r == execute("query Q", variables)
       IN  /\ arg' = variables
           /\ variables' = r.arg
           /\ processed_variables' = r.processed
           /\ files_to_paths_map' = r.fmap
           /\ request' = r.request
           /\ posts' = r.posts
           /\ IF scope = "entered" /\ r.raised # "none"
              THEN scope' = "raising" /\ exc' = r.raised
              ELSE UNCHANGED <<scope, exc>>
    /\ op' = "execute"
    /\ UNCHANGED <<injected, handle, entered, response, json_calls, outcome>>

\* self._get_files_from_variables(variables)
GetFiles ==
    /\ scope \in {"none", "entered"}
    /\ LET r == _get_files_from_variables(variables)
       IN  /\ arg' = variables
           /\ variables' = r.arg
           /\ processed_variables' = r.nulled
           /\ files_to_paths_map' = r.fmap
    /\ op' = "_get_files_from_variables"
    /\ request' = NoRequest
    /\ posts' = 0
    /\ UNCHANGED <<injected, handle, scope, entered, exc, response, json_calls, outcome>>

\* self.get_data(response); inside the with-block its exception leaves the body
GetData ==
    /\ scope \in {"none", "entered"}
    /\ LET r == get_data(response)
       IN  /\ json_calls' = r.json_calls
           /\ outcome' = r.outcome
           /\ IF scope = "entered" /\ r.outcome.kind # "return"
              THEN scope' = "raising" /\ exc' = r.outcome.kind
              ELSE UNCHANGED <<scope, exc>>
    /\ op' = "get_data"
    /\ UNCHANGED <<injected, handle, entered, variables, response, arg,
                   processed_variables, files_to_paths_map, request, posts>>

GenIdle ==
    /\ plugin = NoPlugin
    /\ imports = <<>>
    /\ class_def = ClassDef("", "", 0, <<>>)
    /\ used = [inputs |-> <<>>, enums |-> <<>>, scalars |-> <<>>]
    /\ calls = <<>>
    /\ module = NoModule

OkResponse == Response(200, TRUE, PyDict(<<"data">>, <<PyDict(<<"x">>, <<PyInt(1)>>)>>))

\* calls on a client that is not used as a context manager
Init ==
    /\ \/ ClientInit({FALSE}, ExecuteInputs \cup FilesInputs, {OkResponse})
       \/ ClientInit({FALSE}, {PyNone}, Responses)
    /\ GenIdle

Next ==
    \/ Execute /\ UNCHANGED genVars
    \/ GetFiles /\ UNCHANGED genVars
    \/ GetData /\ UNCHANGED genVars

Spec == Init /\ [][Next]_vars

\* a client with an owned or an injected handle, used as a context manager
ScopeVariables ==
    {PyNone,
     PyDict(<<"a">>, <<PyInt(1)>>),
     PyDict(<<"a">>, <<BinaryHandle(1)>>),
     PyDict(<<"a">>, <<TextHandle>>)}

InitScope ==
    /\ ClientInit(BOOLEAN, ScopeVariables, Responses)
    /\ GenIdle

NextScope ==
    \/ Enter /\ UNCHANGED genVars
    \/ Exit /\ UNCHANGED genVars
    \/ BodyRaises /\ UNCHANGED genVars
    \/ Execute /\ UNCHANGED genVars
    \/ GetData /\ UNCHANGED genVars

SpecScope == InitScope /\ [][NextScope]_vars

----------------------------------------------------------------------------
(* The generator: add_method calls, then generate *)

ClientIdle ==
    /\ ClientInit({FALSE}, {PyNone}, {NoResponse})

TypingImport == ImportFrom(<<"Optional", "List", "Any", "Union">>, "typing", 0)
BaseClientImports == {NoImport, ImportFrom(<<"BaseClient">>, "base_client", 1)}
UnsetImports == {NoImport, ImportFrom(<<"UNSET">>, "base_model", 1)}

\* ClientGenerator.__init__
InitGen ==
    /\ ClientIdle
    /\ plugin \in Plugins
    /\ \E base_client_import \in BaseClientImports, unset_import \in UnsetImports :
          imports = AddImports(plugin, <<>>,
                               <<TypingImport, base_client_import, unset_import>>)
    /\ class_def = ClassDef("Client", "BaseClient", 0, <<>>)
    /\ used = [inputs |-> <<>>, enums |-> <<>>, scalars |-> <<>>]
    /\ calls = <<>>
    /\ module = NoModule

AddMethod(definition, async_) ==
    /\ ~module.generated
    /\ Len(calls) < MaxMethods
    /\ LET r == add_method(plugin, imports, class_def, definition, async_)
       IN  /\ class_def' = r.class_def
           /\ imports' = r.imports
           /\ calls' = Append(calls, [name |-> definition.name, appended |-> r.appended])
    /\ used' = RecordUsed(used, definition)
    /\ UNCHANGED <<plugin, module>>

Generate ==
    /\ ~module.generated
    /\ LET r == generate(plugin, imports, class_def, used)
       IN  /\ imports' = r.imports
           /\ class_def' = r.class_def
           /\ module' = r.module
    /\ UNCHANGED <<plugin, used, calls>>

NextGen ==
    \/ \E definition \in Operations, async_ \in BOOLEAN :
          AddMethod(definition, async_) /\ UNCHANGED clientVars
    \/ Generate /\ UNCHANGED clientVars

SpecGen == InitGen /\ [][NextGen]_vars

----------------------------------------------------------------------------
(* Properties of the scoped client *)

\* C1, as claimed: no operation of the base client ever closes an injected
\* handle, so an injected handle is open in every state.
C1_InjectedHandleNeverClosed ==
    injected => handle = "open"

\* C1, as the code has it: __enter__, execute and get_data never close an
\* injected handle, and __exit__ closes it, on a normal and on an error exit,
\* as it closes a handle the client created itself.
C1_InjectedHandleClosedByExitOnly ==
    injected => (handle = "closed" <=> scope = "exited")

C1_Witness ==
    /\ injected
    /\ scope = "exited"
    /\ handle = "closed"
    /\ exc = "HttpError"
    /\ posts = 1

\* C2: for a client that created its own handle, __enter__ returns the client
\* itself, and once __exit__ has run the handle is closed, whether the body
\* completed or raised HttpError, InvalidResponseError, GraphQLMultiError or
\* any other error.
C2_OwnedHandleClosedOnEveryExit ==
    ~injected =>
        /\ scope # "none" => entered = "self"
        /\ scope = "exited" => handle = "closed"
        /\ scope \in {"none", "entered", "raising"} => handle = "open"

C2_Witness ==
    /\ ~injected
    /\ entered = "self"
    /\ scope = "exited"
    /\ exc = "GraphQLMultiError"
    /\ handle = "closed"

----------------------------------------------------------------------------
(* Properties of execute *)

\* execute has run, and what it put under "variables" in the payload
Executed == op = "execute"
Payload == PyDict(<<"query", "variables">>, <<PyStr("query Q"), processed_variables>>)

\* the payload is what the request carries, JSON-encoded
PayloadSent ==
    \/ request.kind = "json" /\ request.content = JsonDumps(Payload)
    \/ request.kind = "multipart" /\ request.operations = JsonDumps(Payload)

\* the variables argument holds JSON values, binary file handles and what
\* normalization resolves (UNSET, models), and no text-mode file handle, which
\* json.dumps cannot encode
RECURSIVE JsonOrBinary(_)
JsonOrBinary(v) ==
    /\ v.k = "file" => v \in BinaryHandles
    /\ \A i \in DOMAIN v.items : JsonOrBinary(v.items[i])

\* the top-level keys of the variables argument (None has none)
ArgKeys == IF arg.k = "dict" THEN Range(arg.keys) ELSE {}

\* C3: the variables object of the payload has as its keys exactly the
\* top-level keys of the argument that are not bound to UNSET; a key bound to
\* UNSET never appears, a key bound to None appears with value null; the
\* request carries that payload whenever the variables can be encoded.
C3_UnsetOmittedNullKept ==
    Executed =>
        /\ JsonOrBinary(arg) => PayloadSent
        /\ processed_variables.k = "dict"
        /\ Range(processed_variables.keys) = {key \in ArgKeys : DictGet(arg, key) # UNSET}
        /\ \A key \in ArgKeys :
              DictGet(arg, key) = PyNone =>
                  /\ key \in Range(processed_variables.keys)
                  /\ DictGet(processed_variables, key) = PyNone

C3_Witness ==
    /\ Executed
    /\ arg = PyDict(<<"a", "b">>, <<UNSET, PyNone>>)
    /\ request.content = "{\"query\": \"query Q\", \"variables\": {\"b\": null}}"

\* a file-like value at any depth, a model being looked into through what it
\* serializes to
RECURSIVE HasFile(_)
HasFile(v) ==
    \/ v.k = "file"
    \/ \E i \in DOMAIN v.items : HasFile(v.items[i])

\* C4: an execute call whose variables can be encoded makes exactly one post;
\* when the variables hold no file-like value at any depth the File Reference
\* Map is empty and the post is the plain-JSON one; the multipart post is made
\* only with a non-empty map.
C4_OnePostJsonWithoutFiles ==
    Executed =>
        /\ JsonOrBinary(arg) =>
              /\ posts = 1
              /\ request.kind \in {"json", "multipart"}
        /\ ~HasFile(arg) =>
              /\ files_to_paths_map = EmptyMap
              /\ request.kind = "json"
              /\ request.content_type = "application/json"
        /\ request.kind = "multipart" => files_to_paths_map.files # <<>>

C4_Witness ==
    /\ Executed
    /\ arg = PyDict(<<"a", "b">>,
                    <<PyDict(<<"y">>, <<PyList(<<PyInt(1), PyNone>>)>>), PyInt(1)>>)
    /\ posts = 1
    /\ request.content =
          "{\"query\": \"query Q\", \"variables\": {\"a\": {\"y\": [1, null]}, \"b\": 1}}"

----------------------------------------------------------------------------
(* Properties of file extraction *)

\* a structure built from lists, mappings, file handles and plain values:
\* normalization has left no UNSET sentinel and no model in it
RECURSIVE Normalized(_)
Normalized(v) ==
    /\ v.k \notin {"unset", "model"}
    /\ \A i \in DOMAIN v.items : Normalized(v.items[i])

\* file extraction has run, within execute or directly on such a structure
Extracted ==
    \/ op = "execute"
    \/ op = "_get_files_from_variables" /\ Normalized(arg)

\* the segment naming item i of a list or mapping in a dotted path
Segment(v, i) == IF v.k = "dict" THEN v.keys[i] ELSE ToString(i - 1)

\* every <<dotted path, handle>> at which a binary file handle occurs in v;
\* a model is looked into through what it serializes to
RECURSIVE Occurrences(_, _)
Occurrences(v, path) ==
    IF v \in BinaryHandles THEN {<<path, v>>}
    ELSE IF v.k = "model" THEN Occurrences(v.items[1], path)
    ELSE UNION {Occurrences(v.items[i], path \o "." \o Segment(v, i)) :
                   i \in DOMAIN v.items}

\* the binary file handles of v, one per occurrence, in depth-first order
RECURSIVE Encounters(_)
RECURSIVE EncountersFrom(_, _)
EncountersFrom(v, i) ==
    IF i > Len(v.items) THEN <<>>
    ELSE Encounters(v.items[i]) \o EncountersFrom(v, i + 1)
Encounters(v) ==
    IF v \in BinaryHandles THEN <<v>> ELSE EncountersFrom(v, 1)

\* C5: each distinct file handle has exactly one entry in the File Reference
\* Map, which lists every dotted path at which the handle occurs, once; entries
\* are in first-encounter order; the multipart map and files have the indices
\* "0", "1", ... in that order, map giving each index the paths of its handle
\* and files giving it the handle.
C5_OneIndexPerFileAllPaths ==
    Extracted =>
        LET fmap == files_to_paths_map
            occurrences == Occurrences(arg, "variables")
        IN  /\ fmap.files = Unique(Encounters(arg))
            /\ DOMAIN fmap.paths = DOMAIN fmap.files
            /\ \A i \in DOMAIN fmap.files :
                  /\ Range(fmap.paths[i]) =
                        {o[1] : o \in {x \in occurrences : x[2] = fmap.files[i]}}
                  /\ \A j, k \in DOMAIN fmap.paths[i] :
                        fmap.paths[i][j] = fmap.paths[i][k] => j = k
            /\ request.kind = "multipart" =>
                  /\ request.files_map.keys = [i \in DOMAIN fmap.files |-> ToString(i - 1)]
                  /\ request.files.keys = request.files_map.keys
                  /\ request.files.items = fmap.files
                  /\ \A i \in DOMAIN fmap.files :
                        request.files_map.items[i] =
                            PyList([j \in DOMAIN fmap.paths[i] |-> PyStr(fmap.paths[i][j])])
                  /\ request.map = JsonDumps(request.files_map)

C5_Witness ==
    /\ op = "execute"
    /\ arg = PyDict(<<"a", "b">>,
                    <<PyList(<<BinaryHandle(2), BinaryHandle(1)>>), BinaryHandle(2)>>)
    /\ request.map = "{\"0\": [\"variables.a.0\", \"variables.b\"], \"1\": [\"variables.a.1\"]}"
    /\ request.files.items = <<BinaryHandle(2), BinaryHandle(1)>>

\* the positions of v: the index paths from v to each value in it
RECURSIVE Positions(_)
Positions(v) ==
    {<<>>} \cup UNION {{<<i>> \o p : p \in Positions(v.items[i])} : i \in DOMAIN v.items}

\* the value of v at a position
RECURSIVE At(_, _)
At(v, p) == IF p = <<>> THEN v ELSE At(v.items[p[1]], Tail(p))

\* v itself, its items left aside
Node(v) == [v EXCEPT !.items = <<>>]

\* C10: for a normalized input structure, the payload file extraction returns
\* has the positions of its input, null where the input holds a binary file
\* handle and the input's value everywhere else, so it holds no binary file
\* handle at any depth; the input object is as it was before the call,
\* whatever it holds.
C10_FilesNulledRestUnchanged ==
    /\ (op = "_get_files_from_variables" /\ Normalized(arg)) =>
          /\ Positions(processed_variables) = Positions(arg)
          /\ \A p \in Positions(processed_variables) :
                IF At(arg, p) \in BinaryHandles
                THEN At(processed_variables, p) = PyNone
                ELSE /\ Node(At(processed_variables, p)) = Node(At(arg, p))
                     /\ Len(At(processed_variables, p).items) = Len(At(arg, p).items)
    /\ Extracted =>
          \A p \in Positions(processed_variables) :
              At(processed_variables, p) \notin BinaryHandles
    /\ op \in {"execute", "_get_files_from_variables"} => variables = arg

C10_Witness ==
    /\ op = "_get_files_from_variables"
    /\ arg = PyDict(<<"a", "b">>,
                    <<PyDict(<<"y">>, <<PyList(<<BinaryHandle(1), PyInt(1)>>)>>), TextHandle>>)
    /\ processed_variables =
          PyDict(<<"a", "b">>,
                 <<PyDict(<<"y">>, <<PyList(<<PyNone, PyInt(1)>>)>>), TextHandle>>)
    /\ variables = arg

----------------------------------------------------------------------------
(* Properties of get_data *)

\* get_data has run on the response
GotData == outcome.kind # "none"

Success == response.status_code \in 200..299

\* the body parsed to an object
ParsedObject == response.parses /\ response.json.k = "dict"
HasKey(key) == ParsedObject /\ key \in Range(response.json.keys)

\* the parsed object has a non-empty errors array
NonEmptyErrors ==
    /\ HasKey("errors")
    /\ DictGet(response.json, "errors").k = "list"
    /\ DictGet(response.json, "errors").items # <<>>

\* the error is a GraphQLMultiError with one GraphQLError per entry of the
\* errors array, in order, and the body's data value
MultiErrorOfBody ==
    /\ outcome.kind = "GraphQLMultiError"
    /\ LET entries == DictGet(response.json, "errors").items
       IN  /\ Len(outcome.errors) = Len(entries)
           /\ \A i \in DOMAIN entries :
                 outcome.errors[i].message = DictGet(entries[i], "message").s
    /\ HasKey("data") /\ outcome.data = DictGet(response.json, "data")

\* C6: for a response whose status is not success, get_data raises HttpError
\* with the status code and the response, and never calls response.json(),
\* whatever the body holds.
C6_HttpErrorBeforeParsing ==
    GotData /\ ~Success =>
        /\ outcome.kind = "HttpError"
        /\ outcome.status_code = response.status_code
        /\ outcome.response = response
        /\ json_calls = 0

C6_Witness ==
    /\ response = Response(500, TRUE,
                           PyDict(<<"data", "errors">>, <<PyNone, PyList(<<Boom>>)>>))
    /\ outcome.kind = "HttpError"
    /\ outcome.status_code = 500
    /\ json_calls = 0

\* C7, as claimed: for every success response whose parsed body is an object
\* with a non-empty errors array, get_data raises one GraphQLMultiError built
\* from every entry, carrying the body's data value.
C7_ErrorsAlwaysRaiseMultiError ==
    GotData /\ Success /\ NonEmptyErrors => MultiErrorOfBody

\* C7, as the code has it: for every success response whose parsed body is an
\* object with a data key and a non-empty errors array, get_data raises one
\* GraphQLMultiError built from every entry, carrying the body's data value;
\* without a data key it raises InvalidResponseError; get_data never returns
\* while errors is non-empty.
C7_ErrorsWithDataRaiseMultiError ==
    GotData /\ Success /\ NonEmptyErrors =>
        /\ HasKey("data") => MultiErrorOfBody
        /\ ~HasKey("data") => outcome.kind = "InvalidResponseError"
        /\ outcome.kind # "return"

C7_Witness ==
    /\ response = Response(200, TRUE,
                           PyDict(<<"data", "errors">>,
                                  <<PyDict(<<"x">>, <<PyInt(1)>>), PyList(<<Boom>>)>>))
    /\ outcome.kind = "GraphQLMultiError"
    /\ outcome.data = PyDict(<<"x">>, <<PyInt(1)>>)
    /\ outcome.errors = <<[message |-> "boom"]>>

\* C8: for a success response, get_data raises InvalidResponseError carrying
\* the response when the body does not parse or parses to anything but an
\* object with a data key; otherwise, unless errors is non-empty, it returns
\* exactly the data value.
C8_InvalidResponseOrData ==
    GotData /\ Success =>
        IF ~HasKey("data")
        THEN outcome.kind = "InvalidResponseError" /\ outcome.response = response
        ELSE ~NonEmptyErrors =>
                /\ outcome.kind = "return"
                /\ outcome.data = DictGet(response.json, "data")

C8_Witness ==
    /\ response = Response(200, TRUE, PyList(<<PyDict(<<"data">>, <<PyInt(1)>>)>>))
    /\ outcome.kind = "InvalidResponseError"
    /\ outcome.response = response
    /\ json_calls = 1

----------------------------------------------------------------------------
(* Properties of the generator *)

\* the methods of a class body, in order
Methods(body) == SelectSeq(body, IsMethod)
Names(methods) == [i \in DOMAIN methods |-> methods[i].name]

\* C9, as claimed: after add_method calls followed by generate, the methods
\* of the generated class are what the add_method calls appended, one per
\* call, in call order, whatever plugin hooks are registered.
C9_MethodsInCallOrderWithAnyHooks ==
    module.generated =>
        Methods(module.class_def.body) = [i \in DOMAIN calls |-> calls[i].appended]

\* C9, as the code has it: when there is no plugin manager, or its
\* generate_client_class and generate_client_module hooks return the class
\* body as they got it, the methods of the generated class are what the
\* add_method calls appended, one per call, in call order, and they carry the
\* calls' names unless the generate_client_method hook renamed them.
C9_MethodsInCallOrderWithoutRewritingHooks ==
    module.generated /\ plugin.class = "identity" /\ plugin.module = "identity" =>
        /\ Methods(module.class_def.body) = [i \in DOMAIN calls |-> calls[i].appended]
        /\ plugin.method = "identity" =>
              Names(Methods(module.class_def.body)) = [i \in DOMAIN calls |-> calls[i].name]

C9_Witness ==
    /\ module.generated
    /\ plugin = IdentityPlugin
    /\ Names(Methods(module.class_def.body)) = <<"set_c", "get_a", "get_b">>
    /\ [i \in DOMAIN calls |-> calls[i].name] = <<"set_c", "get_a", "get_b">>

====
